---------------------------- MODULE Spec2Model ----------------------------
(***************************************************************************)
(* Model of package hashtree (sphinx-master): the Merkle hash tree         *)
(* builder, the LevelDB leaf store and the guarded memory mapping.         *)
(*                                                                         *)
(* Byte sequences are sequences of chunks.  A chunk is either one raw byte *)
(* [byte |-> b] or a digest block [sha |-> d]: the 32 bytes SHA-256(d).    *)
(* Two digest blocks are equal exactly when their preimages are equal, so  *)
(* the hash is collision-free, and a byte sequence supplied by a caller    *)
(* may contain digest blocks (any 32 bytes are bytes).                     *)
(***************************************************************************)
EXTENDS Integers, Sequences, FiniteSets, TLC

VARIABLES
    leaves,     \* BuildHashTree: the argument
    heap,       \* BuildHashTree: the allocated HashTreeNode objects, by address 1..Len(heap)
    nodes,      \* BuildHashTree: the local slice nodes (addresses)
    bpc,        \* BuildHashTree: position ("idle", "loop", "done", "panic")
    root,       \* BuildHashTree: the returned pointer (0 before the return)
    db,         \* the LevelDB store: a function from the keys present to their values
    thr,        \* leaf store: each caller's operation, arguments, locals and result
    callers,    \* leaf store: the threads that call into it
    db0,        \* history: the store as it was when the caller's current call began
    prev,       \* history: operation, arguments and result of the caller's previous call
    intBits,    \* the width of Go's int in this build (32 or 64)
    maxFileSize,\* the package variable maxFileSize, in bytes
    mu,         \* the package mutex mu: the thread holding it, or NoHolder
    mapped,     \* the live mappings: a function from region to its size
    nextRegion, \* the next region syscall.Mmap hands out
    mthr,       \* mapping: each thread's call, position, locals and result
    rootFile,   \* the file at the root hash path: whether it exists, and its content
    fcall,      \* root file: the last call, its error and the bytes it returned
    saved       \* history: the last successful save, while the file is as it left it

treeVars == <<leaves, heap, nodes, bpc, root>>

storeVars == <<db, thr, callers, db0, prev>>

mapVars == <<intBits, maxFileSize, mu, mapped, nextRegion, mthr>>

fileVars == <<rootFile, fcall, saved>>

vars == <<treeVars, storeVars, mapVars, fileVars>>

(***************************************************************************)
(* Bounds.                                                                 *)
(***************************************************************************)
MaxLeaves == 4

MaxStoreLeaves == 2

MaxGiB == 2

MaxRegions == 2

(***************************************************************************)
(* Bytes and the digest function.                                          *)
(***************************************************************************)
Byte(b) == [byte |-> b]

DigestSize == 32

\* computeHash: sha256.Sum256(data), returned as a fresh 32-byte slice.
computeHash(data) == << [sha |-> data] >>

\* len() of a byte sequence, in bytes.
RECURSIVE ByteLen(_)
ByteLen(data) ==
    IF data = << >> THEN 0
    ELSE (IF "sha" \in DOMAIN Head(data) THEN DigestSize ELSE 1) + ByteLen(Tail(data))

\* Leaves of one raw byte: "a" and "b".
RawLeaves == { << Byte(97) >>, << Byte(98) >> }

\* Leaves of 64 bytes that are two digests side by side.
DigestPairLeaves == { computeHash(a) \o computeHash(b) : a \in RawLeaves, b \in RawLeaves }

LeafData == RawLeaves \cup DigestPairLeaves

LeafSeqs == UNION { [1..n -> LeafData] : n \in 0..MaxLeaves }

(***************************************************************************)
(* BuildHashTree.                                                          *)
(***************************************************************************)
Nil == 0

\* Lines 188-192: one leaf node per leaf, in input order.
LeafLevel(ls) ==
    [ heap  |-> [i \in 1..Len(ls) |-> [Hash |-> computeHash(ls[i]), Left |-> Nil, Right |-> Nil]],
      nodes |-> [i \in 1..Len(ls) |-> i] ]

ParentOf_rightFirst(h, left, right) ==
    [Hash |-> computeHash(h[right].Hash \o h[left].Hash), Left |-> left, Right |-> right]

ParentOf_unordered(h, left, right) ==
    [Hash  |-> computeHash(CHOOSE d \in {h[left].Hash \o h[right].Hash,
                                         h[right].Hash \o h[left].Hash} : TRUE),
     Left  |-> left,
     Right |-> right]

\* Lines 203-207: the parent of two sibling nodes.  left.Hash has len = cap = 32,
\* so append copies and left.Hash is not written.
ParentOf(h, left, right) ==
    [Hash |-> computeHash(h[left].Hash \o h[right].Hash), Left |-> left, Right |-> right]

LevelStep_duplicateLast(h, ns) ==
    LET n     == Len(ns)
        m     == (n + 1) \div 2
        right(k) == IF 2 * k <= n THEN ns[2 * k] ELSE ns[n]
    IN  [ heap  |-> h \o [k \in 1..m |-> ParentOf(h, ns[2 * k - 1], right(k))],
          nodes |-> [k \in 1..m |-> Len(h) + k] ]

LevelStep_dropLast(h, ns) ==
    LET pairs == Len(ns) \div 2
    IN  [ heap  |-> h \o [k \in 1..pairs |-> ParentOf(h, ns[2 * k - 1], ns[2 * k])],
          nodes |-> [k \in 1..pairs |-> Len(h) + k] ]

LevelStep_carryAlways(h, ns) ==
    LET n     == Len(ns)
        pairs == n \div 2
    IN  [ heap  |-> h \o [k \in 1..pairs |-> ParentOf(h, ns[2 * k - 1], ns[2 * k])],
          nodes |-> [k \in 1..(pairs + 1) |-> IF k <= pairs THEN Len(h) + k ELSE ns[n]] ]

\* Lines 197-215: one pass of the outer loop: the next level of the tree.
LevelStep(h, ns) ==
    LET n     == Len(ns)
        pairs == n \div 2
    IN  [ heap  |-> h \o [k \in 1..pairs |-> ParentOf(h, ns[2 * k - 1], ns[2 * k])],
          nodes |-> [k \in 1..((n + 1) \div 2) |->
                        IF 2 * k <= n THEN Len(h) + k ELSE ns[2 * k - 1]] ]

\* Lines 195-216: the loop runs while more than one node is left.
RECURSIVE Reduce(_)
Reduce(st) ==
    IF Len(st.nodes) > 1 THEN Reduce(LevelStep(st.heap, st.nodes)) ELSE st

\* BuildHashTree(ls).Hash for a non-empty ls.
RootDigest(ls) ==
    LET st == Reduce(LeafLevel(ls)) IN st.heap[st.nodes[1]].Hash

TreeInit ==
    /\ leaves = << >>
    /\ heap = << >>
    /\ nodes = << >>
    /\ bpc = "idle"
    /\ root = Nil

\* The call and lines 188-192.
Build_Call ==
    /\ bpc = "idle"
    /\ \E ls \in LeafSeqs :
          /\ leaves' = ls
          /\ heap' = LeafLevel(ls).heap
          /\ nodes' = LeafLevel(ls).nodes
    /\ bpc' = "loop"
    /\ UNCHANGED <<root, storeVars, mapVars, fileVars>>

\* Lines 195-216, one iteration.
Build_Level ==
    /\ bpc = "loop"
    /\ Len(nodes) > 1
    /\ heap' = LevelStep(heap, nodes).heap
    /\ nodes' = LevelStep(heap, nodes).nodes
    /\ UNCHANGED <<leaves, bpc, root, storeVars, mapVars, fileVars>>

\* Line 219: return nodes[0]; an index out of range panics.
Build_Return ==
    /\ bpc = "loop"
    /\ Len(nodes) <= 1
    /\ IF Len(nodes) = 0
          THEN bpc' = "panic" /\ UNCHANGED root
          ELSE bpc' = "done" /\ root' = nodes[1]
    /\ UNCHANGED <<leaves, heap, nodes, storeVars, mapVars, fileVars>>

(***************************************************************************)
(* The root file: SaveRootHashToFile and LoadRootHashFromFile.             *)
(***************************************************************************)
NoFile == [exists |-> FALSE, data |-> << >>]

\* 33 bytes: longer than a digest.
LongContent == computeHash(<< >>) \o << Byte(0) >>

\* What the path may hold before the first call: nothing, or a longer file.
InitialFiles == { NoFile, [exists |-> TRUE, data |-> LongContent] }

WriteFile_noTruncate(old, data) ==
    [exists |-> TRUE,
     data   |-> IF Len(old.data) > Len(data)
                   THEN data \o SubSeq(old.data, Len(data) + 1, Len(old.data))
                   ELSE data]

\* ioutil.WriteFile when it succeeds: the file is created or truncated
\* (O_CREATE | O_TRUNC) and data is all it holds.
WriteFile(old, data) == [exists |-> TRUE, data |-> data]

\* ioutil.WriteFile when it fails: in open, with the file as it was, or in write,
\* with the file already truncated.
FailedWrites(old) == { old, [exists |-> TRUE, data |-> << >>] }

\* What ioutil.ReadFile may return: the whole content, or an error.
ReadFile(f) ==
    IF f.exists
       THEN { [ret |-> "nil", data |-> f.data], [ret |-> "ErrRead", data |-> << >>] }
       ELSE { [ret |-> "ErrNotExist", data |-> << >>] }

NoCall == [op |-> "none", ret |-> "none", data |-> << >>]

NoSave == [digest |-> << >>, replaced |-> NoFile]

FileInit ==
    /\ rootFile = NoFile
    /\ fcall = NoCall
    /\ saved = NoSave

\* Lines 233-235: SaveRootHashToFile(root, filename) for the root of the build.
SaveRootHashToFile ==
    /\ bpc = "done"
    /\ \/ /\ rootFile' = WriteFile(rootFile, heap[root].Hash)
          /\ fcall' = [op |-> "save", ret |-> "nil", data |-> << >>]
          /\ saved' = [digest |-> heap[root].Hash, replaced |-> rootFile]
       \/ /\ rootFile' \in FailedWrites(rootFile)
          /\ fcall' = [op |-> "save", ret |-> "ErrWrite", data |-> << >>]
          /\ saved' = NoSave
    /\ UNCHANGED <<treeVars, storeVars, mapVars>>

\* Lines 238-240: LoadRootHashFromFile(filename).
LoadRootHashFromFile ==
    /\ \E r \in ReadFile(rootFile) :
          fcall' = [op |-> "load", ret |-> r.ret, data |-> r.data]
    /\ UNCHANGED <<rootFile, saved, treeVars, storeVars, mapVars>>

\* Something else writes the file, or removes it.
File_Modified ==
    /\ saved # NoSave
    /\ rootFile' \in InitialFiles
    /\ saved' = NoSave
    /\ UNCHANGED <<fcall, treeVars, storeVars, mapVars>>

(***************************************************************************)
(* The leaf store: SaveLeavesToDB, SaveLeavesBatchToDB, PruneOldLeaves,    *)
(* FetchLeafFromDB and FetchLeafConcurrent over one *leveldb.DB.           *)
(***************************************************************************)
Threads == {"w1", "w2"}

\* Leaves handed to the store, and the sequences of them.
StoreLeaves == RawLeaves

StoreLeafSeqs == UNION { [1..n -> StoreLeaves] : n \in 0..MaxStoreLeaves }

\* numLeaves ranges over the non-positive and beyond the keys ever written.
PruneCounts == (0 - 1)..(MaxStoreLeaves + 1)

Digits == <<"0", "1", "2", "3", "4", "5", "6", "7", "8", "9">>

\* fmt's %d of a non-negative int.
RECURSIVE Decimal(_)
Decimal(i) ==
    IF i < 10 THEN << Digits[i + 1] >>
    ELSE Decimal(i \div 10) \o << Digits[(i % 10) + 1] >>

\* fmt.Sprintf("leaf-%d", i)
LeafKey(i) == <<"l", "e", "a", "f", "-">> \o Decimal(i)

FetchKeys == { LeafKey(i) : i \in 0..MaxStoreLeaves }

\* Errors: "nil", leveldb.ErrNotFound, and "ErrIO" for any other store error.
OtherErrors == {"ErrIO"}

EmptyDB == [k \in {} |-> << >>]

\* db.Put, db.Delete and db.Get when they succeed.
Put(d, k, v) == [x \in (DOMAIN d) \cup {k} |-> IF x = k THEN v ELSE d[x]]

Delete(d, k) == [x \in (DOMAIN d) \ {k} |-> d[x]]

\* What db.Delete may return: nil, ErrNotFound for a key that is absent, or another error.
DeleteOutcomes(d, k) ==
    {"nil"} \cup OtherErrors \cup (IF k \in DOMAIN d THEN {} ELSE {"ErrNotFound"})

GetOutcomes_presentNotFound(d, k) ==
    OtherErrors \cup {"ErrNotFound"} \cup (IF k \in DOMAIN d THEN {"nil"} ELSE {})

\* What db.Get may return.
GetOutcomes(d, k) ==
    OtherErrors \cup (IF k \in DOMAIN d THEN {"nil"} ELSE {"ErrNotFound"})

BatchOf_offByOne(ls) ==
    [i \in 1..Len(ls) |-> [key |-> LeafKey(i), value |-> ls[i]]]

\* Lines 292-299: the batch staged by SaveLeavesBatchToDB.
BatchOf(ls) ==
    [i \in 1..Len(ls) |-> [key |-> LeafKey(i - 1), value |-> ls[i]]]

RECURSIVE ApplyBatch(_, _)
ApplyBatch(d, b) ==
    IF b = << >> THEN d
    ELSE ApplyBatch(Put(d, Head(b).key, Head(b).value), Tail(b))

WriteBatch_firstPutOnly(d, b, err) ==
    IF err = "nil" /\ b # << >> THEN Put(d, Head(b).key, Head(b).value) ELSE d

\* Line 301: db.Write(batch, nil) applies every staged put, or fails and applies none.
WriteBatch(d, b, err) == IF err = "nil" THEN ApplyBatch(d, b) ELSE d

\* The store's value under key k, as db.Get would report it: the error and the bytes.
Observed(d, k) ==
    IF k \in DOMAIN d THEN [ret |-> "nil", val |-> d[k]]
    ELSE [ret |-> "ErrNotFound", val |-> << >>]

NoObservation == [ret |-> "none", val |-> << >>]

IdleThread ==
    [op |-> "idle", pc |-> "idle", leaves |-> << >>, count |-> 0, key |-> << >>,
     i |-> 0, batch |-> << >>, ret |-> "none", val |-> << >>,
     ncalls |-> 0, fail |-> "none", failAt |-> 0 - 1, notFound |-> FALSE,
     before |-> NoObservation, during |-> {}]

NoPrev == [op |-> "idle", leaves |-> << >>, count |-> 0, ret |-> "none"]

\* A store call of the running operation returned err for key index idx: history only.
Noted(s, err, idx) ==
    [s EXCEPT !.ncalls = @ + 1,
              !.fail = IF @ = "none" /\ err \in OtherErrors THEN err ELSE @,
              !.failAt = IF s.fail = "none" /\ err \in OtherErrors THEN idx ELSE @,
              !.notFound = @ \/ err = "ErrNotFound"]

Save_AfterPut_ignoreError(s, err) ==
    [s EXCEPT !.i = @ + 1]

\* Lines 252-254 and the loop increment: return the error, or go on with the next leaf.
Save_AfterPut(s, err) ==
    IF err # "nil" THEN [s EXCEPT !.pc = "ret", !.ret = err]
    ELSE [s EXCEPT !.i = @ + 1]

Prune_AfterDelete_notFoundFatal(s, err) ==
    IF err # "nil" THEN [s EXCEPT !.pc = "ret", !.ret = err]
    ELSE [s EXCEPT !.i = @ + 1]

Prune_AfterDelete_swallowAll(s, err) ==
    [s EXCEPT !.i = @ + 1]

\* Lines 280-282 and the loop increment: return any error but ErrNotFound.
Prune_AfterDelete(s, err) ==
    IF err # "nil" /\ err # "ErrNotFound" THEN [s EXCEPT !.pc = "ret", !.ret = err]
    ELSE [s EXCEPT !.i = @ + 1]

StoreInit ==
    /\ db = EmptyDB
    /\ thr = [t \in Threads |-> IdleThread]
    /\ db0 = [t \in Threads |-> EmptyDB]
    /\ prev = [t \in Threads |-> NoPrev]

\* A caller is between calls.
CanCall(t) == t \in callers /\ thr[t].pc = "idle"

\* History is kept for a caller that has the store to itself.
Begin(t) ==
    IF callers = {t} THEN db0' = [db0 EXCEPT ![t] = db] ELSE UNCHANGED db0

\* SaveLeavesToDB is called.
Save_Call(t) ==
    /\ CanCall(t)
    /\ \E ls \in StoreLeafSeqs :
          thr' = [thr EXCEPT ![t] = [IdleThread EXCEPT !.op = "save", !.pc = "loop", !.leaves = ls]]
    /\ Begin(t)
    /\ UNCHANGED <<db, callers, prev, treeVars, mapVars, fileVars>>

\* Lines 246-254: one iteration, the db.Put and the test of its error.
Save_Put(t) ==
    /\ thr[t].op = "save" /\ thr[t].pc = "loop"
    /\ thr[t].i < Len(thr[t].leaves)
    /\ \E err \in {"nil"} \cup OtherErrors :
          /\ db' = IF err = "nil"
                      THEN Put(db, LeafKey(thr[t].i), thr[t].leaves[thr[t].i + 1])
                      ELSE db
          /\ thr' = [thr EXCEPT ![t] = Save_AfterPut(Noted(@, err, thr[t].i), err)]
    /\ UNCHANGED <<callers, db0, prev, treeVars, mapVars, fileVars>>

\* Line 257: the range is exhausted.
Save_Exit(t) ==
    /\ thr[t].op = "save" /\ thr[t].pc = "loop"
    /\ thr[t].i >= Len(thr[t].leaves)
    /\ thr' = [thr EXCEPT ![t] = [@ EXCEPT !.pc = "ret", !.ret = "nil"]]
    /\ UNCHANGED <<db, callers, db0, prev, treeVars, mapVars, fileVars>>

\* History: what the write of t's batch finds in the store under the key of a
\* fetch that was made during t's call and has not been taken yet.
Before(t) ==
    IF \E u \in Threads : t \in thr[u].during
       THEN Observed(db, thr[CHOOSE u \in Threads : t \in thr[u].during].key)
       ELSE NoObservation

\* SaveLeavesBatchToDB is called; lines 292-299 stage the batch.
Batch_Call(t) ==
    /\ CanCall(t)
    /\ \E ls \in StoreLeafSeqs :
          thr' = [thr EXCEPT ![t] = [IdleThread EXCEPT !.op = "batch", !.pc = "staged",
                                                       !.leaves = ls, !.batch = BatchOf(ls)]]
    /\ Begin(t)
    /\ UNCHANGED <<db, callers, prev, treeVars, mapVars, fileVars>>

\* Line 301: db.Write(batch, nil), whose error is returned.
Batch_Write(t) ==
    /\ thr[t].op = "batch" /\ thr[t].pc = "staged"
    /\ \E err \in {"nil"} \cup OtherErrors :
          /\ db' = WriteBatch(db, thr[t].batch, err)
          /\ thr' = [thr EXCEPT ![t] = [Noted(@, err, 0) EXCEPT !.pc = "ret", !.ret = err,
                                                                !.before = Before(t)]]
    /\ UNCHANGED <<callers, db0, prev, treeVars, mapVars, fileVars>>

\* PruneOldLeaves is called.
Prune_Call(t) ==
    /\ CanCall(t)
    /\ \E n \in PruneCounts :
          thr' = [thr EXCEPT ![t] = [IdleThread EXCEPT !.op = "prune", !.pc = "loop", !.count = n]]
    /\ Begin(t)
    /\ UNCHANGED <<db, callers, prev, treeVars, mapVars, fileVars>>

Prune_Delete_oneMore(t) ==
    /\ thr[t].op = "prune" /\ thr[t].pc = "loop"
    /\ thr[t].i <= thr[t].count
    /\ \E err \in DeleteOutcomes(db, LeafKey(thr[t].i)) :
          /\ db' = IF err = "nil" THEN Delete(db, LeafKey(thr[t].i)) ELSE db
          /\ thr' = [thr EXCEPT ![t] = Prune_AfterDelete(Noted(@, err, thr[t].i), err)]
    /\ UNCHANGED <<callers, db0, prev, treeVars, mapVars, fileVars>>

\* Lines 274-282: one iteration, the db.Delete and the test of its error.
Prune_Delete(t) ==
    /\ thr[t].op = "prune" /\ thr[t].pc = "loop"
    /\ thr[t].i < thr[t].count
    /\ \E err \in DeleteOutcomes(db, LeafKey(thr[t].i)) :
          /\ db' = IF err = "nil" THEN Delete(db, LeafKey(thr[t].i)) ELSE db
          /\ thr' = [thr EXCEPT ![t] = Prune_AfterDelete(Noted(@, err, thr[t].i), err)]
    /\ UNCHANGED <<callers, db0, prev, treeVars, mapVars, fileVars>>

\* Line 285: i < numLeaves is false.
Prune_Exit(t) ==
    /\ thr[t].op = "prune" /\ thr[t].pc = "loop"
    /\ thr[t].i >= thr[t].count
    /\ thr' = [thr EXCEPT ![t] = [@ EXCEPT !.pc = "ret", !.ret = "nil"]]
    /\ UNCHANGED <<db, callers, db0, prev, treeVars, mapVars, fileVars>>

\* db.Get(key, nil) and the return of its value and error.
GetInto(t, op, k) ==
    \E err \in GetOutcomes(db, k) :
        thr' = [thr EXCEPT ![t] =
                   [Noted(IdleThread, err, 0) EXCEPT
                       !.op = op, !.pc = "ret", !.key = k, !.ret = err,
                       !.during = { u \in Threads \ {t} : thr[u].op = "batch" },
                       !.val = IF err = "nil" THEN db[k] ELSE << >>]]

\* FetchLeafFromDB.
Fetch(t) ==
    /\ CanCall(t)
    /\ \E k \in FetchKeys : GetInto(t, "fetch", k)
    /\ Begin(t)
    /\ UNCHANGED <<db, callers, prev, treeVars, mapVars, fileVars>>

\* FetchLeafConcurrent.
FetchConcurrent(t) ==
    /\ CanCall(t)
    /\ \E k \in FetchKeys : GetInto(t, "fetchc", k)
    /\ Begin(t)
    /\ UNCHANGED <<db, callers, prev, treeVars, mapVars, fileVars>>

\* The caller takes the result and is free to call again.
Return(t) ==
    /\ thr[t].pc = "ret"
    /\ thr' = [u \in Threads |->
                  IF u = t THEN IdleThread ELSE [thr[u] EXCEPT !.during = @ \ {t}]]
    /\ IF callers = {t}
          THEN /\ prev' = [prev EXCEPT ![t] = [op |-> thr[t].op, leaves |-> thr[t].leaves,
                                                count |-> thr[t].count, ret |-> thr[t].ret]]
               /\ db0' = [db0 EXCEPT ![t] = EmptyDB]
          ELSE UNCHANGED <<db0, prev>>
    /\ UNCHANGED <<db, callers, treeVars, mapVars, fileVars>>

StoreNext ==
    \/ \E t \in Threads : Save_Call(t)
    \/ \E t \in Threads : Save_Put(t)
    \/ \E t \in Threads : Save_Exit(t)
    \/ \E t \in Threads : Batch_Call(t)
    \/ \E t \in Threads : Batch_Write(t)
    \/ \E t \in Threads : Prune_Call(t)
    \/ \E t \in Threads : Prune_Delete(t)
    \/ \E t \in Threads : Prune_Exit(t)
    \/ \E t \in Threads : Fetch(t)
    \/ \E t \in Threads : FetchConcurrent(t)
    \/ \E t \in Threads : Return(t)

(***************************************************************************)
(* The mapped file guard: setMaxFileSize, MemoryMapFile and UnmapFile      *)
(* behind SafeMemoryMapFile and SafeUnmapFile.                             *)
(*                                                                         *)
(* A byte count is [gib |-> g, rem |-> r], the number g * 2^30 + r with    *)
(* 0 <= r < 2^30, so that counts of several GiB stay exact.                *)
(***************************************************************************)
MapThreads == {"m1", "m2"}

Bytes(g, r) == [gib |-> g, rem |-> r]

\* a > b on byte counts.
Greater(a, b) == a.gib > b.gib \/ (a.gib = b.gib /\ a.rem > b.rem)

\* The widths of int among Go's build targets.
IntWidths == {32, 64}

\* g * (1 << 30) in an int of the given width, in GiB.  With 32 bits the product
\* wraps modulo 2^32 into -2^31..2^31-1; with 64 bits it is exact for |g| < 2^33.
MulGiB(g, bits) == IF bits = 32 THEN ((g + 2) % 4) - 2 ELSE g

\* Line 168.
DefaultMaxFileSize == Bytes(1, 0)

setMaxFileSize_noGuard(cur, sizeInGiB, bits) == Bytes(MulGiB(sizeInGiB, bits), 0)

\* Lines 313-322: the value of maxFileSize after setMaxFileSize(sizeInGiB).
setMaxFileSize(cur, sizeInGiB, bits) ==
    IF sizeInGiB <= 0 THEN cur ELSE Bytes(MulGiB(sizeInGiB, bits), 0)

TooLarge_atCeiling(size, ceiling) == ~ Greater(ceiling, size)

\* Line 346: size > int64(maxFileSize).
TooLarge(size, ceiling) == Greater(size, ceiling)

\* What stat.Size() may report: one byte, and each whole number of GiB and one
\* byte more.
FileSizes ==
    {Bytes(0, 1)} \cup UNION { {Bytes(g, 0), Bytes(g, 1)} : g \in 1..MaxGiB }

SizeArgs == (0 - 1)..MaxGiB

NoHolder == "none"

CanLock_noMutex(holder) == TRUE

\* sync.Mutex: Lock returns when no thread holds the mutex.
CanLock(holder) == holder = NoHolder

IdleMapThread ==
    [op |-> "none", pc |-> "idle", size |-> Bytes(0, 0), checked |-> FALSE,
     ceiling |-> Bytes(0, 0), arg |-> 0, region |-> 0, ret |-> "none"]

MapInit ==
    /\ maxFileSize = DefaultMaxFileSize
    /\ mu = NoHolder
    /\ mapped = EmptyDB
    /\ nextRegion = 1
    /\ mthr = [t \in MapThreads |-> IdleMapThread]

\* SafeMemoryMapFile is called.
SafeMap_Call(t) ==
    /\ mthr[t].pc = "idle"
    /\ mthr' = [mthr EXCEPT ![t] = [IdleMapThread EXCEPT !.op = "map", !.pc = "lock"]]
    /\ UNCHANGED <<intBits, maxFileSize, mu, mapped, nextRegion, treeVars, storeVars, fileVars>>

\* Line 377: mu.Lock().
SafeMap_Lock(t) ==
    /\ mthr[t].op = "map" /\ mthr[t].pc = "lock"
    /\ CanLock(mu)
    /\ mu' = t
    /\ mthr' = [mthr EXCEPT ![t].pc = "open"]
    /\ UNCHANGED <<intBits, maxFileSize, mapped, nextRegion, treeVars, storeVars, fileVars>>

\* Lines 327-343: os.Open and file.Stat, either of which may fail.
Map_OpenStat(t) ==
    /\ mthr[t].op = "map" /\ mthr[t].pc = "open"
    /\ \/ \E err \in {"ErrOpen", "ErrStat"} :
             mthr' = [mthr EXCEPT ![t].pc = "unlock", ![t].ret = err]
       \/ \E sz \in FileSizes :
             mthr' = [mthr EXCEPT ![t].pc = "check", ![t].size = sz]
    /\ UNCHANGED <<intBits, maxFileSize, mu, mapped, nextRegion, treeVars, storeVars, fileVars>>

\* Lines 346-349: the size is compared with maxFileSize as it is now.
Map_Check(t) ==
    /\ mthr[t].op = "map" /\ mthr[t].pc = "check"
    /\ mthr' = [mthr EXCEPT ![t] =
                   IF TooLarge(@.size, maxFileSize)
                   THEN [@ EXCEPT !.checked = TRUE, !.ceiling = maxFileSize,
                                  !.pc = "unlock", !.ret = "ErrTooLarge"]
                   ELSE [@ EXCEPT !.checked = TRUE, !.ceiling = maxFileSize, !.pc = "mmap"]]
    /\ UNCHANGED <<intBits, maxFileSize, mu, mapped, nextRegion, treeVars, storeVars, fileVars>>

\* Lines 353-360: syscall.Mmap maps the whole file or fails.
Map_Mmap(t) ==
    /\ mthr[t].op = "map" /\ mthr[t].pc = "mmap"
    /\ \/ /\ nextRegion <= MaxRegions
          /\ mapped' = Put(mapped, nextRegion, mthr[t].size)
          /\ nextRegion' = nextRegion + 1
          /\ mthr' = [mthr EXCEPT ![t].pc = "unlock", ![t].ret = "nil", ![t].region = nextRegion]
       \/ /\ mthr' = [mthr EXCEPT ![t].pc = "unlock", ![t].ret = "ErrMmap"]
          /\ UNCHANGED <<mapped, nextRegion>>
    /\ UNCHANGED <<intBits, maxFileSize, mu, treeVars, storeVars, fileVars>>

\* Line 379: the deferred mu.Unlock(), and the return.
SafeMap_Return(t) ==
    /\ mthr[t].op = "map" /\ mthr[t].pc = "unlock"
    /\ mu' = NoHolder
    /\ mthr' = [mthr EXCEPT ![t] = IdleMapThread]
    /\ UNCHANGED <<intBits, maxFileSize, mapped, nextRegion, treeVars, storeVars, fileVars>>

\* SafeUnmapFile is called with a region.
SafeUnmap_Call(t) ==
    /\ mthr[t].pc = "idle"
    /\ \E r \in 1..MaxRegions :
          mthr' = [mthr EXCEPT ![t] = [IdleMapThread EXCEPT !.op = "unmap", !.pc = "lock", !.arg = r]]
    /\ UNCHANGED <<intBits, maxFileSize, mu, mapped, nextRegion, treeVars, storeVars, fileVars>>

\* Line 387: mu.Lock().
SafeUnmap_Lock(t) ==
    /\ mthr[t].op = "unmap" /\ mthr[t].pc = "lock"
    /\ CanLock(mu)
    /\ mu' = t
    /\ mthr' = [mthr EXCEPT ![t].pc = "munmap"]
    /\ UNCHANGED <<intBits, maxFileSize, mapped, nextRegion, treeVars, storeVars, fileVars>>

\* Lines 365-368: syscall.Munmap releases a live mapping or fails.
Unmap_Munmap(t) ==
    /\ mthr[t].op = "unmap" /\ mthr[t].pc = "munmap"
    /\ \/ /\ mthr[t].arg \in DOMAIN mapped
          /\ mapped' = Delete(mapped, mthr[t].arg)
          /\ mthr' = [mthr EXCEPT ![t].pc = "unlock", ![t].ret = "nil"]
       \/ /\ mthr' = [mthr EXCEPT ![t].pc = "unlock", ![t].ret = "ErrUnmap"]
          /\ UNCHANGED mapped
    /\ UNCHANGED <<intBits, maxFileSize, mu, nextRegion, treeVars, storeVars, fileVars>>

SafeUnmap_Return_noUnlock(t) ==
    /\ mthr[t].op = "unmap" /\ mthr[t].pc = "unlock"
    /\ mthr' = [mthr EXCEPT ![t] = IdleMapThread]
    /\ UNCHANGED <<intBits, maxFileSize, mu, mapped, nextRegion, treeVars, storeVars, fileVars>>

\* Line 389: the deferred mu.Unlock(), and the return.
SafeUnmap_Return(t) ==
    /\ mthr[t].op = "unmap" /\ mthr[t].pc = "unlock"
    /\ mu' = NoHolder
    /\ mthr' = [mthr EXCEPT ![t] = IdleMapThread]
    /\ UNCHANGED <<intBits, maxFileSize, mapped, nextRegion, treeVars, storeVars, fileVars>>

\* setMaxFileSize(g), which takes no lock.
SetMaxFileSize(t) ==
    /\ mthr[t].pc = "idle"
    /\ \E g \in SizeArgs :
          /\ maxFileSize' = setMaxFileSize(maxFileSize, g, intBits)
          /\ mthr' = [mthr EXCEPT ![t] = [IdleMapThread EXCEPT !.op = "setmax", !.arg = g]]
    /\ UNCHANGED <<intBits, mu, mapped, nextRegion, treeVars, storeVars, fileVars>>

MapNext ==
    \/ \E t \in MapThreads : SafeMap_Call(t)
    \/ \E t \in MapThreads : SafeMap_Lock(t)
    \/ \E t \in MapThreads : Map_OpenStat(t)
    \/ \E t \in MapThreads : Map_Check(t)
    \/ \E t \in MapThreads : Map_Mmap(t)
    \/ \E t \in MapThreads : SafeMap_Return(t)
    \/ \E t \in MapThreads : SafeUnmap_Call(t)
    \/ \E t \in MapThreads : SafeUnmap_Lock(t)
    \/ \E t \in MapThreads : Unmap_Munmap(t)
    \/ \E t \in MapThreads : SafeUnmap_Return(t)
    \/ \E t \in MapThreads : SetMaxFileSize(t)

(***************************************************************************)
(* Specifications.                                                         *)
(***************************************************************************)
TreeNext ==
    \/ Build_Call
    \/ Build_Level
    \/ Build_Return

\* A single caller of the leaf store.
InitSeq == TreeInit /\ StoreInit /\ callers = {"w1"} /\ MapInit /\ intBits = 64 /\ FileInit

\* Concurrent callers of the leaf store.
InitConc == TreeInit /\ StoreInit /\ callers = Threads /\ MapInit /\ intBits = 64 /\ FileInit

\* The mapped file guard, in a build of either width.
InitMap == TreeInit /\ StoreInit /\ callers = {"w1"} /\ MapInit /\ intBits \in IntWidths /\ FileInit

\* One build and the root file.
InitRoot ==
    /\ TreeInit /\ StoreInit /\ callers = {"w1"} /\ MapInit /\ intBits = 64
    /\ rootFile \in InitialFiles /\ fcall = NoCall /\ saved = NoSave

RootNext ==
    \/ Build_Call
    \/ Build_Level
    \/ Build_Return
    \/ SaveRootHashToFile
    \/ LoadRootHashFromFile
    \/ File_Modified

\* One build.
SpecTree == InitSeq /\ [][TreeNext]_vars

\* One build that, once called, keeps running: the loop and the return are
\* straight-line code of the calling goroutine.
SpecTreeFair ==
    InitSeq /\ [][TreeNext]_vars /\ WF_vars(Build_Level) /\ WF_vars(Build_Return)

\* The leaf store with a single caller.
SpecStoreSeq == InitSeq /\ [][StoreNext]_vars

\* The leaf store with concurrent callers.
SpecStoreConc == InitConc /\ [][StoreNext]_vars

\* Threads calling SafeMemoryMapFile, SafeUnmapFile and setMaxFileSize.
SpecMap == InitMap /\ [][MapNext]_vars

\* The calls that take mu; setMaxFileSize neither takes nor tests it.
MapLockNext ==
    \/ \E t \in MapThreads : SafeMap_Call(t)
    \/ \E t \in MapThreads : SafeMap_Lock(t)
    \/ \E t \in MapThreads : Map_OpenStat(t)
    \/ \E t \in MapThreads : Map_Check(t)
    \/ \E t \in MapThreads : Map_Mmap(t)
    \/ \E t \in MapThreads : SafeMap_Return(t)
    \/ \E t \in MapThreads : SafeUnmap_Call(t)
    \/ \E t \in MapThreads : SafeUnmap_Lock(t)
    \/ \E t \in MapThreads : Unmap_Munmap(t)
    \/ \E t \in MapThreads : SafeUnmap_Return(t)

\* Threads calling SafeMemoryMapFile and SafeUnmapFile under a scheduler that
\* keeps every started call running, and a mutex that does not starve a waiter:
\* sync.Mutex hands the lock to a goroutine that has waited long (starvation
\* mode).
SpecMapFair ==
    /\ InitMap
    /\ [][MapLockNext]_vars
    /\ \A t \in MapThreads :
          /\ SF_vars(SafeMap_Lock(t))
          /\ SF_vars(SafeUnmap_Lock(t))
          /\ WF_vars(Map_OpenStat(t))
          /\ WF_vars(Map_Check(t))
          /\ WF_vars(Map_Mmap(t))
          /\ WF_vars(SafeMap_Return(t))
          /\ WF_vars(Unmap_Munmap(t))
          /\ WF_vars(SafeUnmap_Return(t))

\* A build whose root is saved to the root file and loaded from it.
SpecRoot == InitRoot /\ [][RootNext]_vars

(***************************************************************************)
(* Claims about BuildHashTree.                                             *)
(***************************************************************************)
\* One pass of the outer loop, seen from outside: it replaces the level.
C1_LevelStep ==
    (bpc = "loop" /\ bpc' = "loop" /\ nodes' # nodes) =>
        LET n == Len(nodes)
            m == Len(nodes')
        IN  /\ m = (n + 1) \div 2
            /\ \A a \in 1..Len(heap) : heap'[a] = heap[a]
            /\ \A k \in 1..(n \div 2) :
                  /\ nodes'[k] \notin 1..Len(heap)
                  /\ heap'[nodes'[k]] =
                        [Hash  |-> computeHash(heap[nodes[2 * k - 1]].Hash \o heap[nodes[2 * k]].Hash),
                         Left  |-> nodes[2 * k - 1],
                         Right |-> nodes[2 * k]]
            /\ n % 2 = 1 =>
                  /\ nodes'[m] = nodes[n]
                  /\ \A k \in 1..(m - 1) : nodes'[k] # nodes[n]
                  /\ \A a \in 1..Len(heap') :
                        heap'[a].Left # nodes[n] /\ heap'[a].Right # nodes[n]

C1_ThreeLeaves ==
    (bpc = "done" /\ Len(leaves) = 3) =>
        heap[root].Hash =
            computeHash(computeHash(computeHash(leaves[1]) \o computeHash(leaves[2]))
                        \o computeHash(leaves[3]))

\* C1: at every reduction level the nodes are paired left to right, a level of n
\* nodes becomes a level of ceil(n/2) nodes, and with n odd the last node is placed
\* in the next level as the very same node (same address, same digest, same
\* children, child of no new parent); build([A,B,C]).digest =
\* hash(hash(hash(A) ++ hash(B)) ++ hash(C)).
C1_OddCarry == [][C1_LevelStep]_vars /\ []C1_ThreeLeaves

C1_Witness ==
    /\ bpc = "done"
    /\ Len(leaves) = 3
    /\ heap[root].Right = 3
    /\ heap[3].Left = Nil
    /\ heap[heap[root].Left].Left = 1

\* C2: in every state of a build, every node has no child or both children, and a
\* node with children has digest = hash(left.digest ++ right.digest), left first.
C2_NodeInvariant ==
    \A a \in 1..Len(heap) :
        \/ heap[a].Left = Nil /\ heap[a].Right = Nil
        \/ /\ heap[a].Left \in 1..Len(heap)
           /\ heap[a].Right \in 1..Len(heap)
           /\ heap[a].Hash = computeHash(heap[heap[a].Left].Hash \o heap[heap[a].Right].Hash)

C2_Witness ==
    /\ bpc = "done"
    /\ Len(leaves) = 4
    /\ leaves[1] # leaves[2]
    /\ heap[root].Left # Nil
    /\ heap[heap[root].Left].Left # Nil

\* C3: two non-empty leaf sequences of different lengths have different roots
\* (leaves are arbitrary byte sequences, the hash is collision-free).
C3_CountChangesRoot ==
    bpc = "done" =>
        \A ls \in LeafSeqs :
            (Len(ls) > 0 /\ Len(ls) # Len(leaves)) => RootDigest(ls) # heap[root].Hash

Swap(ls, i, j) ==
    [k \in 1..Len(ls) |-> IF k = i THEN ls[j] ELSE IF k = j THEN ls[i] ELSE ls[k]]

\* C4: exchanging two leaves at different positions whose contents hash
\* differently changes the root digest.
C4_OrderSensitive ==
    bpc = "done" =>
        \A i \in 1..Len(leaves) : \A j \in 1..Len(leaves) :
            (i < j /\ computeHash(leaves[i]) # computeHash(leaves[j])) =>
                RootDigest(Swap(leaves, i, j)) # heap[root].Hash

C4_Witness ==
    /\ bpc = "done"
    /\ Len(leaves) = 3
    /\ computeHash(leaves[1]) # computeHash(leaves[3])
    /\ leaves[2] \in DigestPairLeaves
    /\ RootDigest(Swap(leaves, 1, 3)) # heap[root].Hash

(***************************************************************************)
(* Claims about the leaf store.                                            *)
(***************************************************************************)
LeafKeysBelow(k) == { LeafKey(j) : j \in 0..(k - 1) }

\* Keys leaf-0..leaf-(k-1) of store d hold ls[0..k-1].
HoldsPrefix(d, ls, k) ==
    \A j \in 0..(k - 1) : LeafKey(j) \in DOMAIN d /\ d[LeafKey(j)] = ls[j + 1]

\* Stores d and e agree (presence and value) on every key outside ks.
SameOutside(d, e, ks) ==
    \A key \in ((DOMAIN d) \cup (DOMAIN e)) \ ks :
        key \in DOMAIN d /\ key \in DOMAIN e /\ d[key] = e[key]

C5_BatchStep ==
    \A t \in Threads :
        /\ (thr[t].pc = "idle" /\ thr'[t].op = "batch") => db' = db
        /\ (thr[t].op = "batch" /\ thr[t].pc = "staged" /\ thr'[t].pc = "ret") =>
              \/ /\ thr'[t].ret = "nil"
                 /\ HoldsPrefix(db', thr[t].leaves, Len(thr[t].leaves))
                 /\ SameOutside(db', db, LeafKeysBelow(Len(thr[t].leaves)))
              \/ /\ thr'[t].ret # "nil"
                 /\ db' = db

\* C5: every step of save_leaves_batch, with other callers running, either leaves
\* the store as it is or puts all N leaves under leaf-0..leaf-(N-1) at once; it
\* returns success in the second case only and an error in the first.
C5_BatchAtomic == [][C5_BatchStep]_vars

C5_Witness ==
    /\ thr["w1"].op = "batch" /\ thr["w1"].pc = "ret"
    /\ thr["w1"].ret = "ErrIO"
    /\ Len(thr["w1"].leaves) = 2
    /\ LeafKey(0) \in DOMAIN db /\ db[LeafKey(0)] # thr["w1"].leaves[1]
    /\ LeafKey(1) \notin DOMAIN db
    /\ thr["w2"].op = "fetchc" /\ thr["w2"].val = db[LeafKey(0)]

\* C6: save_leaves puts the leaves in increasing index order from 0; when the put
\* at index k fails it returns that error after k + 1 puts, leaf-0..leaf-(k-1)
\* hold the new leaves and every other key is as before the call; with no failing
\* put it returns success and leaf-0..leaf-(N-1) hold the leaves.
C6_SaveStopsAtFirstError ==
    \A t \in callers :
        thr[t].op = "save" =>
            LET s  == thr[t]
                ls == s.leaves
            IN  /\ s.pc = "loop" =>
                      /\ s.fail = "none" /\ s.ncalls = s.i
                      /\ HoldsPrefix(db, ls, s.i)
                      /\ SameOutside(db, db0[t], LeafKeysBelow(s.i))
                /\ (s.pc = "ret" /\ s.fail # "none") =>
                      /\ s.ret = s.fail
                      /\ s.ncalls = s.failAt + 1
                      /\ HoldsPrefix(db, ls, s.failAt)
                      /\ SameOutside(db, db0[t], LeafKeysBelow(s.failAt))
                /\ (s.pc = "ret" /\ s.fail = "none") =>
                      /\ s.ret = "nil"
                      /\ s.ncalls = Len(ls)
                      /\ HoldsPrefix(db, ls, Len(ls))
                      /\ SameOutside(db, db0[t], LeafKeysBelow(Len(ls)))

C6_Witness ==
    /\ thr["w1"].op = "save" /\ thr["w1"].pc = "ret"
    /\ thr["w1"].ret = "ErrIO" /\ thr["w1"].failAt = 1
    /\ Len(thr["w1"].leaves) = 2
    /\ LeafKey(0) \in DOMAIN db0["w1"] /\ db0["w1"][LeafKey(0)] # thr["w1"].leaves[1]
    /\ LeafKey(1) \in DOMAIN db0["w1"] /\ db0["w1"][LeafKey(1)] # thr["w1"].leaves[2]
    /\ db[LeafKey(0)] = thr["w1"].leaves[1]

\* C7: a prune_leaves(store, k) in which no delete fails except with not-found
\* returns success with none of leaf-0..leaf-(k-1) present, and when the previous
\* call was a successful prune_leaves(store, k) too, it leaves the store unchanged.
C7_PruneIdempotent ==
    \A t \in callers :
        (thr[t].op = "prune" /\ thr[t].pc = "ret" /\ thr[t].fail = "none") =>
            /\ thr[t].ret = "nil"
            /\ \A j \in 0..(thr[t].count - 1) : LeafKey(j) \notin DOMAIN db
            /\ (prev[t].op = "prune" /\ prev[t].count = thr[t].count /\ prev[t].ret = "nil")
                  => db = db0[t]

C7_Witness ==
    /\ thr["w1"].op = "prune" /\ thr["w1"].pc = "ret"
    /\ thr["w1"].count = 1 /\ thr["w1"].ret = "nil" /\ thr["w1"].notFound
    /\ prev["w1"].op = "prune" /\ prev["w1"].count = 1 /\ prev["w1"].ret = "nil"
    /\ LeafKey(1) \in DOMAIN db

\* C8: when the delete of leaf-j fails with an error other than not-found,
\* prune_leaves returns that error after j + 1 deletes, leaf-0..leaf-(j-1) are
\* gone and every other key is as before the call; not-found is never returned,
\* and without such a failure all count deletes are made.
C8_PruneErrorPolicy ==
    \A t \in callers :
        (thr[t].op = "prune" /\ thr[t].pc = "ret") =>
            LET s == thr[t]
            IN  /\ s.ret # "ErrNotFound"
                /\ s.fail # "none" =>
                      /\ s.ret = s.fail
                      /\ s.ncalls = s.failAt + 1
                      /\ \A j \in 0..(s.failAt - 1) : LeafKey(j) \notin DOMAIN db
                      /\ \A key \in (DOMAIN db0[t]) \ LeafKeysBelow(s.failAt) :
                            key \in DOMAIN db /\ db[key] = db0[t][key]
                /\ s.fail = "none" =>
                      /\ s.ret = "nil"
                      /\ s.ncalls = (IF s.count > 0 THEN s.count ELSE 0)

C8_Witness ==
    /\ thr["w1"].op = "prune" /\ thr["w1"].pc = "ret"
    /\ thr["w1"].count = 3 /\ thr["w1"].ret = "ErrIO" /\ thr["w1"].failAt = 1
    /\ thr["w1"].notFound
    /\ LeafKey(0) \notin DOMAIN db0["w1"]
    /\ LeafKey(1) \in DOMAIN db

(***************************************************************************)
(* Claims about the mapped file guard.                                     *)
(***************************************************************************)
\* The thread is inside the body of MemoryMapFile or UnmapFile.
InBody(t) == mthr[t].pc \in {"open", "check", "mmap", "munmap"}

\* C9: with threads calling safe_map_file and safe_unmap, no two threads are
\* inside the bodies of map_file / unmap at once, and a thread inside holds mu.
C9_MutualExclusion ==
    \A t \in MapThreads :
        InBody(t) => (mu = t /\ \A u \in MapThreads \ {t} : ~ InBody(u))

C9_Witness ==
    /\ mthr["m1"].op = "map" /\ mthr["m1"].pc = "mmap"
    /\ mthr["m2"].op = "unmap" /\ mthr["m2"].pc = "lock"
    /\ mthr["m2"].arg \in DOMAIN mapped

C10_CallState ==
    \A t \in MapThreads :
        mthr[t].op = "map" =>
            /\ mthr[t].ret = "ErrTooLarge" <=>
                  (mthr[t].checked /\ Greater(mthr[t].size, mthr[t].ceiling))
            /\ mthr[t].ret = "ErrTooLarge" => mthr[t].region = 0
            /\ mthr[t].region # 0 =>
                  /\ mthr[t].checked
                  /\ ~ Greater(mthr[t].size, mthr[t].ceiling)
                  /\ mthr[t].ret = "nil"

C10_Step ==
    /\ \A t \in MapThreads :
          /\ (mthr[t].pc = "check" /\ mthr'[t].pc # "check") =>
                (mthr'[t].ceiling = maxFileSize /\ mapped' = mapped)
          /\ (mthr[t].ret = "ErrTooLarge" /\ mthr'[t] # mthr[t]) => mapped' = mapped
    /\ \A r \in (DOMAIN mapped') \ (DOMAIN mapped) :
          \E t \in MapThreads :
             /\ mthr[t].pc = "mmap"
             /\ ~ Greater(mthr[t].size, mthr[t].ceiling)
             /\ mapped'[r] = mthr[t].size
    /\ maxFileSize' # maxFileSize => mapped' = mapped

\* C10: map_file returns the capacity error exactly when the size is strictly
\* greater than maxFileSize as read by the check (size = ceiling passes), a
\* rejected call creates no mapping, and a change of the ceiling leaves every
\* mapped region as it is.
C10_CeilingBoundary == [][C10_Step]_vars /\ []C10_CallState

C10_Witness ==
    /\ maxFileSize = Bytes(1, 0)
    /\ 1 \in DOMAIN mapped /\ mapped[1] = Bytes(2, 0)
    /\ mthr["m1"].op = "map" /\ mthr["m1"].ret = "ErrTooLarge"
    /\ mthr["m1"].size = Bytes(1, 1) /\ mthr["m1"].ceiling = Bytes(1, 0)
    /\ intBits = 64

(***************************************************************************)
(* Further claims about the leaf store.                                    *)
(***************************************************************************)
FetchOps == {"fetch", "fetchc"}

C12_Step ==
    \A t \in callers :
        (thr[t].pc = "idle" /\ thr'[t].op \in FetchOps) =>
            LET s == thr'[t]
            IN  /\ db' = db
                /\ s.pc = "ret"
                /\ s.ret \in {"nil", "ErrNotFound"} \cup OtherErrors
                /\ s.ret = "nil" => (s.key \in DOMAIN db /\ s.val = db[s.key])
                /\ s.ret = "ErrNotFound" => s.key \notin DOMAIN db
                /\ s.ret # "nil" => s.val = << >>
                /\ s.ret \notin OtherErrors =>
                      IF s.key \in DOMAIN db
                         THEN s.ret = "nil" /\ s.val = db[s.key]
                         ELSE s.ret = "ErrNotFound"

C12_AfterSave ==
    \A t \in callers :
        (/\ thr[t].op \in FetchOps /\ thr[t].pc = "ret" /\ thr[t].ret = "nil"
         /\ prev[t].op \in {"save", "batch"} /\ prev[t].ret = "nil") =>
            \A i \in 0..(Len(prev[t].leaves) - 1) :
                thr[t].key = LeafKey(i) => thr[t].val = prev[t].leaves[i + 1]

\* C12: fetch_leaf and fetch_leaf_concurrent never change the store and return
\* what the store's get answers: for a present key success with the bytes last
\* put under it (leaves[i] for leaf-i right after a successful save_leaves or
\* save_leaves_batch of leaves), for an absent key the not-found error, never
\* success and never another error in its place; an error of the store's own is
\* handed on as it is, with no bytes.
C12_FetchReflectsStore == [][C12_Step]_vars /\ []C12_AfterSave

C12_Witness ==
    /\ thr["w1"].op = "fetchc" /\ thr["w1"].pc = "ret" /\ thr["w1"].ret = "nil"
    /\ thr["w1"].key = LeafKey(1)
    /\ prev["w1"].op = "batch" /\ prev["w1"].ret = "nil" /\ Len(prev["w1"].leaves) = 2
    /\ thr["w1"].val = prev["w1"].leaves[2]
    /\ prev["w1"].leaves[1] # prev["w1"].leaves[2]

C20_Step ==
    \A t \in Threads : \A u \in Threads \ {t} :
        (/\ thr[t].op = "batch" /\ thr[t].pc = "staged"
         /\ thr'[t].pc = "ret" /\ thr'[t].ret = "nil"
         /\ thr[u].op = "batch" /\ Len(thr[u].leaves) = Len(thr[t].leaves)) =>
            /\ HoldsPrefix(db', thr[t].leaves, Len(thr[t].leaves))
            /\ thr'[u] = thr[u]

C20_State ==
    \A t \in Threads : \A u \in Threads \ {t} :
        LET w == thr[t]
            N == Len(w.leaves)
        IN  /\ (/\ w.op = "batch" /\ w.pc = "ret" /\ w.ret = "nil"
                 /\ thr[u].op = "batch" /\ thr[u].pc = "ret" /\ thr[u].ret = "nil"
                 /\ Len(thr[u].leaves) = N) =>
                    \/ HoldsPrefix(db, w.leaves, N)
                    \/ HoldsPrefix(db, thr[u].leaves, N)
            /\ (/\ t \in thr[u].during
                 /\ thr[u].op \in FetchOps /\ thr[u].pc = "ret"
                 /\ thr[u].ret \notin OtherErrors) =>
                    LET got == [ret |-> thr[u].ret, val |-> thr[u].val]
                    IN  IF w.pc = "staged" \/ w.ret # "nil"
                           THEN got = Observed(db, thr[u].key)
                           ELSE \/ got = w.before
                                \/ got = Observed(db, thr[u].key)

\* C20: with two callers and no lock of the component's own: when both have a
\* successful save_leaves_batch of N leaves in progress, leaf-0..leaf-(N-1) hold
\* the leaves of one of them entirely, those of the batch applied last; and a
\* fetch made during a save_leaves_batch returns, for its key, the value from
\* before the batch or the value with the batch applied in full.
C20_BatchesDoNotMix == [][C20_Step]_vars /\ []C20_State

C20_Witness ==
    /\ thr["w1"].op = "batch" /\ thr["w1"].pc = "ret" /\ thr["w1"].ret = "nil"
    /\ thr["w2"].op = "batch" /\ thr["w2"].pc = "ret" /\ thr["w2"].ret = "nil"
    /\ Len(thr["w1"].leaves) = 2 /\ Len(thr["w2"].leaves) = 2
    /\ thr["w1"].leaves[1] # thr["w2"].leaves[1]
    /\ thr["w1"].leaves[2] # thr["w2"].leaves[2]
    /\ HoldsPrefix(db, thr["w2"].leaves, 2)

(***************************************************************************)
(* Further claims about BuildHashTree.                                     *)
(***************************************************************************)
C15_Step ==
    /\ (bpc = "loop" /\ bpc' = "loop" /\ nodes' # nodes) =>
          /\ Len(nodes) > 1
          /\ Len(nodes') >= 1
          /\ Len(nodes') < Len(nodes)
    /\ (bpc = "loop" /\ bpc' = "done") =>
          /\ Len(nodes) = 1
          /\ root' = nodes[1]
          /\ heap' = heap
    /\ (bpc = "loop" /\ Len(nodes) = 1) => (nodes' = nodes /\ heap' = heap)

C15_SingleLeaf ==
    (bpc \in {"loop", "done"} /\ Len(leaves) = 1) =>
        /\ heap = << [Hash |-> computeHash(leaves[1]), Left |-> Nil, Right |-> Nil] >>
        /\ nodes = << 1 >>
        /\ bpc = "done" => root = 1

C15_Returns == (bpc = "loop" /\ Len(leaves) > 0) ~> (bpc = "done")

\* C15: a build of a non-empty leaf sequence returns: every pass of the loop over
\* a level of n > 1 nodes leaves a shorter, non-empty level; the loop is left
\* exactly when one node remains, which is the node returned; with one leaf no
\* pass is made and the root is the childless leaf node with digest hash(leaf).
C15_BuildTerminates == [][C15_Step]_vars /\ []C15_SingleLeaf /\ C15_Returns

C15_Witness ==
    /\ bpc = "done"
    /\ Len(leaves) = 3
    /\ Len(heap) = 5
    /\ nodes = << 5 >> /\ root = 5

\* The childless nodes under node a, read left to right.
RECURSIVE Frontier(_, _)
Frontier(h, a) ==
    IF h[a].Left = Nil /\ h[a].Right = Nil THEN << a >>
    ELSE (IF h[a].Left = Nil THEN << >> ELSE Frontier(h, h[a].Left))
         \o (IF h[a].Right = Nil THEN << >> ELSE Frontier(h, h[a].Right))

\* The same for the nodes ns of one level, in order.
RECURSIVE LevelFrontier(_, _)
LevelFrontier(h, ns) ==
    IF ns = << >> THEN << >> ELSE Frontier(h, Head(ns)) \o LevelFrontier(h, Tail(ns))

Children(h, a) == { h[a].Left, h[a].Right } \ { Nil }

\* C16: during a build and in the tree it returns, the childless nodes read left
\* to right are the leaf nodes of leaves[0], ..., leaves[n-1] in this order, each
\* once, with digests hash(leaves[i]); no node is a child of two parents or both
\* children of one, and no node but those of the current level lacks a parent.
C16_LeafOrder ==
    (bpc \in {"loop", "done"} /\ Len(leaves) > 0) =>
        /\ LevelFrontier(heap, nodes) = [i \in 1..Len(leaves) |-> i]
        /\ \A i \in 1..Len(leaves) :
              heap[i] = [Hash |-> computeHash(leaves[i]), Left |-> Nil, Right |-> Nil]
        /\ \A a \in 1..Len(heap) :
              /\ a > Len(leaves) => heap[a].Left # heap[a].Right
              /\ \A b \in 1..Len(heap) :
                    a # b => Children(heap, a) \cap Children(heap, b) = {}
              /\ (\E b \in 1..Len(heap) : a \in Children(heap, b))
                    <=> (\A k \in 1..Len(nodes) : nodes[k] # a)
        /\ bpc = "done" => Frontier(heap, root) = [i \in 1..Len(leaves) |-> i]

C16_Witness ==
    /\ bpc = "done"
    /\ Len(leaves) = 3
    /\ leaves[1] = leaves[3] /\ leaves[1] # leaves[2]
    /\ Frontier(heap, root) = << 1, 2, 3 >>
    /\ heap[1].Hash = heap[3].Hash

(***************************************************************************)
(* Claims about the root file.                                             *)
(***************************************************************************)
\* C14: after a successful save_root(root, path), while nothing else writes the
\* file, the file holds exactly root.digest, 32 bytes and nothing more, whatever
\* it held before, and a load_root(path) that reads it returns these bytes.
C14_RootRoundTrip ==
    saved # NoSave =>
        /\ saved.digest = heap[root].Hash
        /\ rootFile = [exists |-> TRUE, data |-> saved.digest]
        /\ ByteLen(rootFile.data) = DigestSize
        /\ (fcall.op = "load" /\ fcall.ret = "nil") => fcall.data = heap[root].Hash
        /\ fcall.op = "load" => fcall.ret # "ErrNotExist"

C14_Witness ==
    /\ saved.replaced = [exists |-> TRUE, data |-> LongContent]
    /\ fcall.op = "load" /\ fcall.ret = "nil"
    /\ fcall.data = heap[root].Hash
    /\ Len(leaves) = 2

(***************************************************************************)
(* Claims about the mapping lock.                                          *)
(***************************************************************************)
\* The thread is between mu.Lock() and the deferred mu.Unlock().
InCall(t) == InBody(t) \/ mthr[t].pc = "unlock"

ExitErrors == {"ErrOpen", "ErrStat", "ErrTooLarge", "ErrMmap", "ErrUnmap"}

C17_HeldInsideCall ==
    /\ mu \in {NoHolder} \cup MapThreads
    /\ \A t \in MapThreads :
          /\ mu = t <=> InCall(t)
          /\ mthr[t].ret \in ExitErrors \cup {"nil"} => mthr[t].pc = "unlock"

C17_Step ==
    \A t \in MapThreads :
        /\ (mthr[t].pc = "unlock" /\ mthr'[t].pc # "unlock") =>
              (mthr'[t].pc = "idle" /\ mu = t /\ mu' = NoHolder)
        /\ (InBody(t) /\ ~ InBody(t)') => mthr'[t].pc = "unlock"

C17_Returns ==
    \A t \in MapThreads : (mthr[t].pc = "lock") ~> (mthr[t].pc = "idle")

\* C17: mu is held exactly by a thread between its Lock and its return, whatever
\* the body returns (open, stat, capacity, mmap or munmap error, or success): the
\* return releases it, no returned call holds it, and every thread that calls
\* safe_map_file or safe_unmap returns.
C17_LockReleased == [][C17_Step]_vars /\ []C17_HeldInsideCall /\ C17_Returns

C17_Witness ==
    /\ mthr["m1"].op = "map" /\ mthr["m1"].pc = "unlock" /\ mthr["m1"].ret = "ErrMmap"
    /\ mu = "m1"
    /\ mthr["m2"].op = "unmap" /\ mthr["m2"].pc = "lock"
    /\ 1 \in DOMAIN mapped

(***************************************************************************)
(* Claims about the size ceiling.                                          *)
(***************************************************************************)
\* Thread t makes a call of setMaxFileSize in this step.
SetsCeiling(t) ==
    mthr[t].pc = "idle" /\ mthr'[t] # mthr[t] /\ mthr'[t].op = "setmax"

C13_Step ==
    \A t \in MapThreads :
        (SetsCeiling(t) /\ mthr'[t].arg <= 0) =>
            /\ maxFileSize' = maxFileSize
            /\ mthr'[t].ret = "none"
            /\ mu' = mu /\ mapped' = mapped

\* C13: a call of set_size_ceiling with gib <= 0 leaves the ceiling, whatever it
\* is, as it was, and gives its caller no error.
C13_NonPositiveNoOp == [][C13_Step]_vars

C13_Witness ==
    /\ mthr["m1"].op = "setmax" /\ mthr["m1"].arg = 0 - 1
    /\ mthr["m2"].op = "setmax" /\ mthr["m2"].arg = 2
    /\ maxFileSize = Bytes(2, 0)

\* C18: whatever calls of set_size_ceiling were made, the ceiling is greater than
\* 0, and right after a call with gib > 0 it is gib * 2^30 bytes.
C18_CeilingPositiveExact ==
    /\ Greater(maxFileSize, Bytes(0, 0))
    /\ \A t \in MapThreads :
          (mthr[t].op = "setmax" /\ mthr[t].arg > 0
           /\ \A u \in MapThreads \ {t} : mthr[u].op # "setmax")
             => maxFileSize = Bytes(mthr[t].arg, 0)

(***************************************************************************)
(* Claims about the way calls end.                                         *)
(***************************************************************************)
\* C11: no call ends in a panic: every build, also of an empty leaf sequence,
\* returns to its caller.
C11_NeverPanics == bpc # "panic"

=============================================================================
